---- MODULE Spec2Model ----
(***************************************************************************)
(* A model of two components of the vitess tree:                           *)
(*   - go/vt/vtgate/planbuilder/update.go : buildUpdatePlan and helpers    *)
(*   - go/vt/worker/key_resolver.go       : the v2 / v3 keyspace-id        *)
(*                                          resolvers                      *)
(* SQL text is a sequence of string fragments; concatenation of text is    *)
(* concatenation of sequences.  Identifiers are in the lowered form that   *)
(* ColIdent.Equal compares.                                                *)
(***************************************************************************)
EXTENDS Integers, Sequences, FiniteSets, TLC

VARIABLES
    upd,        \* planner: the parsed UPDATE statement (*sqlparser.Update)
    table,      \* planner: the *vindexes.Table the statement's route resolves to
    env,        \* planner: outcomes of the collaborators buildUpdatePlan calls
    result,     \* planner: what buildUpdatePlan returned (nothing yet / plan / error)
    resolver,   \* worker: the keyspaceIDResolver under use (v2Resolver / v3Resolver)
    made,       \* worker: what the factory returned ("none" before the call)
    debugTables,\* worker: the table names the debug filter selects
    calls,      \* worker: per caller, the keyspaceID call in progress
    acc         \* worker: the last accessor call and its outcome

plannerVars == <<upd, table, env, result>>
resolverVars == <<resolver, made, debugTables, calls, acc>>
vars == <<upd, table, env, result, resolver, made, debugTables, calls, acc>>

(***************************************************************************)
(* Bounds of the planner's inputs.                                         *)
(***************************************************************************)
MaxExprs == 2          \* longest SET list of the statements of UpdatesCore
MaxVindexes == 3       \* most column-vindexes on a table of Tables

SeqsFromTo(S, lo, hi) == UNION { [1..k -> S] : k \in lo..hi }

\* Columns a statement can assign and a vindex can cover.
Cols == {"id", "a", "b"}

\* The keyspace's vindexes by name: whether the vindex implements
\* vindexes.Lookup and whether the table under update owns it.  A
\* ColumnVindex refers to one of them by name, so two column-vindexes of a
\* table may carry the same name.
VindexNames == {"hash", "lkp", "own1", "own2"}
IsLookup(name) == name \in {"lkp", "own1", "own2"}
IsOwned(name) == name \in {"own1", "own2"}

ColumnVindex(name, columns) == [Name |-> name, Columns |-> columns]

\* The primary vindex (ColumnVindexes[0]): one or two columns.
PrimaryVindexes ==
    { ColumnVindex("hash", <<"id">>), ColumnVindex("hash", <<"id", "a">>) }

\* The column-vindexes after it: hash, lkp and own1 cover one column, own2
\* covers two.
SecondaryVindexes ==
    { ColumnVindex(n, <<c>>) : n \in {"hash", "lkp", "own1"}, c \in {"a", "b"} }
    \cup { ColumnVindex("own2", <<"a", "b">>), ColumnVindex("own2", <<"b", "a">>) }

Table(colVindexes) == [Name |-> "t", ColumnVindexes |-> colVindexes]

Tables ==
    { Table(<<p>> \o rest) :
        p \in PrimaryVindexes,
        rest \in SeqsFromTo(SecondaryVindexes, 0, MaxVindexes - 1) }

\* Tables in the style of the planner's test vschema.
FixtureTables ==
    { Table(<<ColumnVindex("hash", <<"id">>)>>),
      Table(<<ColumnVindex("hash", <<"id">>), ColumnVindex("own1", <<"a">>),
              ColumnVindex("lkp", <<"b">>)>>),
      Table(<<ColumnVindex("hash", <<"id", "a">>),
              ColumnVindex("own2", <<"a", "b">>),
              ColumnVindex("own1", <<"b">>)>>) }

\* sqlparser expressions a SET assignment can carry.  StrVal, HexVal, IntVal
\* and ValArg are the SQLVal kinds sqlparser.IsValue accepts; FloatVal is a
\* SQLVal it does not accept, BinaryExpr stands for col + 1.
ValueKinds == {"StrVal", "HexVal", "IntVal", "ValArg"}
CoreExprs ==
    { [kind |-> "IntVal", val |-> "1"],
      [kind |-> "ValArg", val |-> ":v"],
      [kind |-> "BinaryExpr", val |-> "col + 1"] }
SetExprs ==
    CoreExprs \cup
    { [kind |-> "StrVal", val |-> "'x'"],
      [kind |-> "HexVal", val |-> "x'AB'"],
      [kind |-> "FloatVal", val |-> "1.5"] }

NoErr == ""

\* WHERE clauses.  hasSubquery tells whether the clause holds a subquery.
NoWhere == [text |-> <<>>, present |-> FALSE, hasSubquery |-> FALSE]
RoutedWhere ==
    [text |-> <<" where ", "id = 1">>, present |-> TRUE, hasSubquery |-> FALSE]
RoutedWheres ==
    { RoutedWhere,
      [text |-> <<" where ", "id = :id">>, present |-> TRUE,
       hasSubquery |-> FALSE] }
Wheres ==
    RoutedWheres \cup
    { NoWhere,
      [text |-> <<" where ", "id in (select 1 from dual)">>, present |-> TRUE,
       hasSubquery |-> TRUE] }

\* ORDER BY: a list of order expressions, empty when the clause is absent.
OrderBys == { <<>>, <<"id asc">> }

\* LIMIT: present or nil.
Limits == { [present |-> FALSE, text |-> <<>>],
            [present |-> TRUE, text |-> <<" limit ", "1">>] }

\* Statements with up to MaxExprs assignments of the core expressions.
UpdatesCore ==
    [Exprs : SeqsFromTo([Name : Cols, Expr : CoreExprs], 1, MaxExprs),
     Where : {RoutedWhere}, OrderBy : OrderBys, Limit : Limits]

\* The same SET lists under every WHERE clause.
UpdatesCoreAnyWhere ==
    [Exprs : SeqsFromTo([Name : Cols, Expr : CoreExprs], 1, MaxExprs),
     Where : Wheres, OrderBy : OrderBys, Limit : Limits]

\* Statements with one assignment, of every expression kind.
UpdatesKinds ==
    [Exprs : { <<x>> : x \in [Name : Cols, Expr : SetExprs] },
     Where : Wheres, OrderBy : OrderBys, Limit : Limits]

\* What the collaborators of buildUpdatePlan answer: processTableExprs (an
\* error, a join, a route), the route's TargetDestination, Keyspace.Sharded,
\* validateSubquerySamePlan, the size of the route's symbol table, whether
\* the table has a vindexTable, whether getDMLRouting finds a route.
Envs ==
    [tableExprs : {"err", "join", "route"}, targetDestination : BOOLEAN,
     sharded : BOOLEAN, subquerySamePlan : BOOLEAN, numTables : {1, 2},
     vindexTableNil : BOOLEAN, routing : BOOLEAN]

EnvRouted ==
    [tableExprs |-> "route", targetDestination |-> FALSE, sharded |-> TRUE,
     subquerySamePlan |-> TRUE, numTables |-> 1, vindexTableNil |-> FALSE,
     routing |-> TRUE]

EnvsUnsharded ==
    { [EnvRouted EXCEPT !.sharded = FALSE, !.subquerySamePlan = s] :
        s \in BOOLEAN }

(***************************************************************************)
(* Collaborators of buildUpdatePlan that live outside update.go.           *)
(***************************************************************************)

\* table.Owned: the owned column-vindexes in declaration order.
TableOwned(t) == SelectSeq(t.ColumnVindexes, LAMBDA cv : IsOwned(cv.Name))

\* sqlparser.IsValue: StrVal, HexVal, IntVal and ValArg nodes.
IsValue(expr) == expr.kind \in ValueKinds

\* sqlparser.NewPlanValue on a node IsValue accepts: a bind variable becomes
\* a placeholder keyed by its name, a literal becomes a typed value.
NewPlanValue(expr) ==
    IF expr.kind = "ValArg"
    THEN [kind |-> "placeholder", key |-> expr.val]
    ELSE [kind |-> "literal",
          typ |-> CASE expr.kind = "IntVal" -> "INT64"
                    [] expr.kind = "StrVal" -> "VARBINARY"
                    [] OTHER -> "VARBINARY",
          val |-> expr.val]

\* Rendering of order by (TrackedBuffer %v of sqlparser.OrderBy).
OrderByText(ob) == IF Len(ob) = 0 THEN <<>> ELSE <<" order by ">> \o ob

RECURSIVE ExprsText(_, _)
ExprsText(exprs, k) ==
    IF k > Len(exprs) THEN <<>>
    ELSE (IF k = 1 THEN <<>> ELSE <<", ">>)
         \o <<exprs[k].Name, " = ", exprs[k].Expr.val>>
         \o ExprsText(exprs, k + 1)

\* generateQuery: the rendering of the statement.
generateQuery(u, t) ==
    <<"update ", t.Name, " set ">> \o ExprsText(u.Exprs, 1)
    \o u.Where.text \o OrderByText(u.OrderBy) \o u.Limit.text

\* hasSubquery: whether any node of the statement is a subquery.
hasSubquery(u) == u.Where.hasSubquery

(***************************************************************************)
(* update.go                                                               *)
(***************************************************************************)

\* extractValueFromUpdate without the IsValue test of line 159.
extractValueUnchecked(assignment) ==
    [err |-> NoErr, pv |-> <<NewPlanValue(assignment.Expr)>>]

\* extractValueFromUpdate(upd, col)
extractValueFromUpdate(assignment) ==
    IF ~IsValue(assignment.Expr)
    THEN [err |-> "Only values are supported", pv |-> <<>>]
    ELSE [err |-> NoErr, pv |-> <<NewPlanValue(assignment.Expr)>>]

\* The loop over update.Exprs for one vindex column (lines 97-111): found is
\* the flag of line 97, vals the vindexValues collected so far.
RECURSIVE ScanAssignments(_, _, _, _, _)
ScanAssignments(vcol, exprs, k, found, vals) ==
    IF k > Len(exprs) THEN [err |-> NoErr, vals |-> vals]
    ELSE IF exprs[k].Name # vcol
         THEN ScanAssignments(vcol, exprs, k + 1, found, vals)
    ELSE IF found THEN [err |-> "column has duplicate set values", vals |-> vals]
    ELSE LET e == extractValueFromUpdate(exprs[k]) IN
         IF e.err # NoErr THEN [err |-> e.err, vals |-> vals]
         ELSE ScanAssignments(vcol, exprs, k + 1, TRUE, vals \o e.pv)

\* The loop over vindex.Columns (lines 95-112).
RECURSIVE ScanColumns(_, _, _, _)
ScanColumns(columns, exprs, c, vals) ==
    IF c > Len(columns) THEN [err |-> NoErr, vals |-> vals]
    ELSE LET r == ScanAssignments(columns[c], exprs, 1, FALSE, vals) IN
         IF r.err # NoErr THEN r
         ELSE ScanColumns(columns, exprs, c + 1, r.vals)

\* The checks of lines 117-132 with the primary-vindex test moved after the
\* lookup and ownership tests.
VindexCheckPrimaryLast(i, vindex, vindexValues, u) ==
    IF Len(vindexValues) # Len(vindex.Columns)
    THEN "update does not have values for all the columns in vindex"
    ELSE IF u.Limit.present /\ Len(u.OrderBy) = 0
    THEN "Need to provide order by clause when using limit"
    ELSE IF ~IsLookup(vindex.Name)
    THEN "You can only update lookup vindexes"
    ELSE IF ~IsOwned(vindex.Name)
    THEN "You can only update owned vindexes"
    ELSE IF i = 0
    THEN "You can't update primary vindex columns"
    ELSE NoErr

\* The checks on a vindex whose values are changing (lines 117-132); i is the
\* Go index of the vindex, 0 for the primary vindex.
VindexCheck(i, vindex, vindexValues, u) ==
    IF Len(vindexValues) # Len(vindex.Columns)
    THEN "update does not have values for all the columns in vindex"
    ELSE IF u.Limit.present /\ Len(u.OrderBy) = 0
    THEN "Need to provide order by clause when using limit"
    ELSE IF i = 0
    THEN "You can't update primary vindex columns"
    ELSE IF ~IsLookup(vindex.Name)
    THEN "You can only update lookup vindexes"
    ELSE IF ~IsOwned(vindex.Name)
    THEN "You can only update owned vindexes"
    ELSE NoErr

\* The loop over colVindexes (lines 93-134); n is the 1-based position,
\* changed the changedVindexes map built so far.
RECURSIVE ChangedLoop(_, _, _, _)
ChangedLoop(u, colVindexes, n, changed) ==
    IF n > Len(colVindexes) THEN [err |-> NoErr, changed |-> changed]
    ELSE LET vindex == colVindexes[n]
             r == ScanColumns(vindex.Columns, u.Exprs, 1, <<>>)
         IN  IF r.err # NoErr THEN [err |-> r.err, changed |-> <<>>]
             ELSE IF Len(r.vals) = 0
                  THEN ChangedLoop(u, colVindexes, n + 1, changed)
             ELSE LET e == VindexCheck(n - 1, vindex, r.vals, u) IN
                  IF e # NoErr THEN [err |-> e, changed |-> <<>>]
                  ELSE ChangedLoop(u, colVindexes, n + 1,
                                   (vindex.Name :> r.vals) @@ changed)

\* buildChangedVindexesValues(eupd, update, colVindexes)
buildChangedVindexesValues(u, colVindexes) ==
    ChangedLoop(u, colVindexes, 1, <<>>)

\* The column list of lines 142-150 with the test of line 144 reduced to
\* cIdx == 0: no separator before the first column of any vindex.
RECURSIVE SubqueryColumnsNoVindexSeparator(_, _, _)
SubqueryColumnsNoVindexSeparator(owned, vIdx, cIdx) ==
    IF vIdx >= Len(owned) THEN <<>>
    ELSE IF cIdx >= Len(owned[vIdx + 1].Columns)
         THEN SubqueryColumnsNoVindexSeparator(owned, vIdx + 1, 0)
    ELSE (IF cIdx = 0
          THEN <<owned[vIdx + 1].Columns[cIdx + 1]>>
          ELSE <<", ", owned[vIdx + 1].Columns[cIdx + 1]>>)
         \o SubqueryColumnsNoVindexSeparator(owned, vIdx, cIdx + 1)

\* The column list of generateUpdateSubquery (lines 142-150) from owned
\* vindex vIdx, column cIdx on (Go indices).
RECURSIVE SubqueryColumns(_, _, _)
SubqueryColumns(owned, vIdx, cIdx) ==
    IF vIdx >= Len(owned) THEN <<>>
    ELSE IF cIdx >= Len(owned[vIdx + 1].Columns)
         THEN SubqueryColumns(owned, vIdx + 1, 0)
    ELSE (IF cIdx = 0 /\ vIdx = 0
          THEN <<owned[vIdx + 1].Columns[cIdx + 1]>>
          ELSE <<", ", owned[vIdx + 1].Columns[cIdx + 1]>>)
         \o SubqueryColumns(owned, vIdx, cIdx + 1)

\* generateUpdateSubquery(upd, table)
generateUpdateSubquery(u, t) ==
    <<"select ">> \o SubqueryColumns(TableOwned(t), 0, 0)
    \o <<" from ", t.Name>> \o u.Where.text \o OrderByText(u.OrderBy)
    \o u.Limit.text \o <<" for update">>

NoPlan == [Opcode |-> "none"]

Failed(msg) == [plan |-> NoPlan, err |-> msg]

\* The sharded part of buildUpdatePlan (lines 58-85).
ShardedPlan(u, t, e) ==
    IF hasSubquery(u)
    THEN Failed("unsupported: subqueries in sharded DML")
    ELSE IF e.numTables # 1
    THEN Failed("unsupported: multi-table update statement in sharded keyspace")
    ELSE IF e.vindexTableNil
    THEN Failed("internal error: table.vindexTable is mysteriously nil")
    ELSE IF ~e.routing
    THEN Failed("unsupported: multi-shard where clause in DML")
    ELSE LET c == buildChangedVindexesValues(u, t.ColumnVindexes) IN
         IF c.err # NoErr THEN Failed(c.err)
         ELSE [plan |-> [Opcode |-> "UpdateEqual",
                         Query |-> generateQuery(u, t),
                         ChangedVindexValues |-> c.changed,
                         OwnedVindexQuery |->
                             IF DOMAIN c.changed # {}
                             THEN generateUpdateSubquery(u, t)
                             ELSE <<>>],
               err |-> NoErr]

\* The unsharded part without the return of line 55: the statement goes on
\* through the vindex analysis.
UnshardedPlanAnalysed(u, t, e) ==
    IF hasSubquery(u) /\ ~e.subquerySamePlan
    THEN Failed("unsupported: sharded subqueries in DML")
    ELSE LET c == buildChangedVindexesValues(u, t.ColumnVindexes) IN
         IF c.err # NoErr THEN Failed(c.err)
         ELSE [plan |-> [Opcode |-> "UpdateUnsharded",
                         Query |-> generateQuery(u, t),
                         ChangedVindexValues |-> c.changed,
                         OwnedVindexQuery |->
                             IF DOMAIN c.changed # {}
                             THEN generateUpdateSubquery(u, t)
                             ELSE <<>>],
               err |-> NoErr]

\* The unsharded part of buildUpdatePlan (lines 49-56).
UnshardedPlan(u, t, e) ==
    IF hasSubquery(u) /\ ~e.subquerySamePlan
    THEN Failed("unsupported: sharded subqueries in DML")
    ELSE [plan |-> [Opcode |-> "UpdateUnsharded",
                    Query |-> generateQuery(u, t),
                    ChangedVindexValues |-> <<>>,
                    OwnedVindexQuery |-> <<>>],
          err |-> NoErr]

\* buildUpdatePlan(upd, vschema): the value returned, [plan, err].
buildUpdatePlan(u, t, e) ==
    IF e.tableExprs = "err"
    THEN Failed("processTableExprs failed")
    ELSE IF e.tableExprs # "route"
    THEN Failed("unsupported: multi-table update statement in sharded keyspace")
    ELSE IF e.targetDestination
    THEN Failed("unsupported: UPDATE with a target destination")
    ELSE IF ~e.sharded
    THEN UnshardedPlan(u, t, e)
    ELSE ShardedPlan(u, t, e)

(***************************************************************************)
(* key_resolver.go.  A sqltypes.Value is its raw bytes, a sequence of      *)
(* numbers 0..255; decimal numbers of any size are sequences of digits     *)
(* 0..9 without leading zeros (the empty sequence is zero).                *)
(***************************************************************************)
NumWorkers == 2        \* callers sharing one resolver
MaxValLen == 3         \* longest generated row value
MaxPKCols == 3         \* longest primary-key column list

Callers == 1..NumWorkers

\* topodatapb.KeyspaceIdType
KeyspaceIdType_UNSET == "UNSET"
KeyspaceIdType_UINT64 == "UINT64"
KeyspaceIdType_BYTES == "BYTES"
\* a value of the enum no constant names
KeyspaceIdType_UNKNOWN == "3"

TableBaseTable == "BASE TABLE"
TableView == "VIEW"

errV2unsupported == "Should debug unsupported for v2"

\* '0' is byte 48
Ascii(digits) == [i \in 1..Len(digits) |-> digits[i] + 48]
IsDigit(b) == b >= 48 /\ b <= 57

MaxUint64 == <<1,8,4,4,6,7,4,4,0,7,3,7,0,9,5,5,1,6,1,5>>
MaxUint64Plus1 == <<1,8,4,4,6,7,4,4,0,7,3,7,0,9,5,5,1,6,1,6>>

\* Row values: every byte string up to MaxValLen over '0', '3' and 'x',
\* and 0xAB, "-1", 2^64-1 and 2^64.
SampleBytes == {48, 51, 120}
RowValues ==
    SeqsFromTo(SampleBytes, 0, MaxValLen)
    \cup { <<171>>, <<45, 49>>, Ascii(MaxUint64), Ascii(MaxUint64Plus1) }
Filler == <<102>>

\* Rows of a two-column table: the value under test in either position.
Rows == { <<v, Filler>> : v \in RowValues } \cup { <<Filler, v>> : v \in RowValues }

RECURSIVE StripZeros(_)
StripZeros(d) ==
    IF Len(d) > 0 /\ d[1] = 0 THEN StripZeros(Tail(d)) ELSE d

RECURSIVE LexLeq(_, _)
LexLeq(x, y) ==
    IF Len(x) = 0 THEN TRUE
    ELSE IF x[1] # y[1] THEN x[1] < y[1]
    ELSE LexLeq(Tail(x), Tail(y))

\* x <= y for numbers as digit sequences
NumLeq(x, y) == Len(x) < Len(y) \/ (Len(x) = Len(y) /\ LexLeq(x, y))

\* sqltypes.ToUint64: the value parsed as a decimal unsigned 64-bit integer;
\* an error for empty or non-numeric content and for a number above 2^64-1.
ToUint64(v) ==
    IF Len(v) = 0 \/ \E i \in 1..Len(v) : ~IsDigit(v[i])
    THEN [err |-> "could not parse value", n |-> <<>>]
    ELSE LET n == StripZeros([i \in 1..Len(v) |-> v[i] - 48]) IN
         IF NumLeq(n, MaxUint64) THEN [err |-> NoErr, n |-> n]
         ELSE [err |-> "value out of range", n |-> <<>>]

\* Long division of a digit sequence by 256: quotient digits and remainder.
RECURSIVE DivMod256(_, _, _, _)
DivMod256(d, i, r, q) ==
    IF i > Len(d) THEN [q |-> StripZeros(q), r |-> r]
    ELSE LET t == r * 10 + d[i] IN
         DivMod256(d, i + 1, t % 256, Append(q, t \div 256))

\* key.Uint64Key(n).Bytes(): binary.BigEndian.PutUint64 into 8 bytes.
RECURSIVE BigEndian(_, _)
BigEndian(n, width) ==
    IF width = 0 THEN <<>>
    ELSE LET dm == DivMod256(n, 1, 0, <<>>) IN
         Append(BigEndian(dm.q, width - 1), dm.r)

Uint64KeyBytes(n) == BigEndian(n, 8)

\* key.Destination variants
DestinationKeyspaceID(b) == [kind |-> "DestinationKeyspaceID", bytes |-> b]
DestinationNone == [kind |-> "DestinationNone", bytes |-> <<>>]
DestinationAllShards == [kind |-> "DestinationAllShards", bytes |-> <<>>]

\* The vindexes of the keyspace, by what Map answers for one value.
VindexKinds ==
    {"binary", "numeric", "none", "empty", "two", "allshards", "failing"}

\* vindex.Map(nil, []sqltypes.Value{v}): [err, dests]
VindexMap(vindex, v) ==
    CASE vindex = "binary" ->
            [err |-> NoErr, dests |-> <<DestinationKeyspaceID(v)>>]
      [] vindex = "numeric" ->
            LET p == ToUint64(v) IN
            IF p.err # NoErr THEN [err |-> p.err, dests |-> <<>>]
            ELSE [err |-> NoErr,
                  dests |-> <<DestinationKeyspaceID(Uint64KeyBytes(p.n))>>]
      [] vindex = "none" -> [err |-> NoErr, dests |-> <<DestinationNone>>]
      [] vindex = "empty" -> [err |-> NoErr, dests |-> <<>>]
      [] vindex = "two" ->
            [err |-> NoErr,
             dests |-> <<DestinationKeyspaceID(v), DestinationKeyspaceID(v)>>]
      [] vindex = "allshards" ->
            [err |-> NoErr, dests |-> <<DestinationAllShards>>]
      [] OTHER -> [err |-> "map failed", dests |-> <<>>]

\* tabletmanagerdatapb.TableDefinition; nil marks the nil pointer.
NilTd ==
    [nil |-> TRUE, Name |-> "", Type |-> "", Columns |-> <<>>,
     PrimaryKeyColumns |-> <<>>]
TableDefinitions ==
    [nil : {FALSE}, Name : {"t"}, Type : {TableBaseTable, TableView},
     Columns : { <<"a", "b">>, <<"b", "a">>, <<"b", "c">> },
     PrimaryKeyColumns : SeqsFromTo({"a", "b"}, 0, MaxPKCols)]

\* topo.KeyspaceInfo
KeyspaceInfos ==
    [ShardingColumnName : {"", "a"},
     ShardingColumnType : {KeyspaceIdType_UNSET, KeyspaceIdType_UINT64,
                           KeyspaceIdType_BYTES, KeyspaceIdType_UNKNOWN}]
NoKeyspaceInfo ==
    [ShardingColumnName |-> "", ShardingColumnType |-> KeyspaceIdType_UNSET]

\* vindexes.KeyspaceSchema: the column-vindexes of table "t", or no table.
SchemaVindex(kind, col, cost, unique) ==
    [Vindex |-> kind, Columns |-> <<col>>, Cost |-> cost, Unique |-> unique]
KeyspaceSchemas ==
    { [hasTable |-> FALSE, ColumnVindexes |-> <<>>] }
    \cup { [hasTable |-> TRUE,
            ColumnVindexes |-> <<SchemaVindex(k, "a", 1, TRUE)>>] :
           k \in VindexKinds }
    \cup { [hasTable |-> TRUE,
            ColumnVindexes |-> <<SchemaVindex("binary", "a", 1, FALSE)>>],
           [hasTable |-> TRUE,
            ColumnVindexes |-> <<SchemaVindex("none", "b", 1, TRUE),
                                 SchemaVindex("binary", "a", 0, TRUE)>>],
           [hasTable |-> TRUE, ColumnVindexes |-> <<>>] }

ColumnLists == { <<"a", "b">>, <<"b", "a">>, <<"b", "c">> }

NoResolver ==
    [variant |-> "none", keyspaceInfo |-> NoKeyspaceInfo,
     shardingColumnIndex |-> 0, vindex |-> "", td |-> NilTd]

\* The position (from 0) of the first element of names equal to name, -1
\* when there is none.
RECURSIVE IndexOf(_, _, _)
IndexOf(names, name, i) ==
    IF i >= Len(names) THEN -1
    ELSE IF names[i + 1] = name THEN i
    ELSE IndexOf(names, name, i + 1)

\* tmutils.TableDefinitionGetColumn(td, name)
TableDefinitionGetColumn(td, name) == IndexOf(td.Columns, name, 0)

\* vindexes.FindVindexForSharding: the lowest-cost unique vindex, the first
\* one on a tie; an error when there is none of cost 0 or 1.
RECURSIVE LowestCost(_, _, _)
LowestCost(cvs, i, best) ==
    IF i > Len(cvs) THEN best
    ELSE IF cvs[i].Cost < best.Cost /\ cvs[i].Unique
         THEN LowestCost(cvs, i + 1, cvs[i])
    ELSE LowestCost(cvs, i + 1, best)

FindVindexForSharding(cvs) ==
    IF Len(cvs) = 0
    THEN [err |-> "no vindex definition for table", cv |-> SchemaVindex("", "", 0, FALSE)]
    ELSE LET best == LowestCost(cvs, 1, cvs[1]) IN
         IF best.Cost > 1 \/ ~best.Unique
         THEN [err |-> "could not find a vindex to use for sharding table",
               cv |-> best]
         ELSE [err |-> NoErr, cv |-> best]

NotMade(msg) == [r |-> NoResolver, err |-> msg]

\* newV2Resolver(keyspaceInfo, td)
newV2Resolver(keyspaceInfo, td) ==
    IF keyspaceInfo.ShardingColumnName = ""
    THEN NotMade("ShardingColumnName needs to be set for a v2 sharding key")
    ELSE IF keyspaceInfo.ShardingColumnType = KeyspaceIdType_UNSET
    THEN NotMade("ShardingColumnType needs to be set for a v2 sharding key")
    ELSE IF td.Type # TableBaseTable
    THEN NotMade("a keyspaceID resolver can only be created for a base table")
    ELSE LET columnIndex ==
                 TableDefinitionGetColumn(td, keyspaceInfo.ShardingColumnName)
         IN  IF columnIndex = -1
             THEN NotMade("table doesn't have a column named")
             ELSE [r |-> [variant |-> "v2", keyspaceInfo |-> keyspaceInfo,
                          shardingColumnIndex |-> columnIndex,
                          vindex |-> "", td |-> NilTd],
                   err |-> NoErr]

\* newV3ResolverFromTableDefinition(keyspaceSchema, td)
newV3ResolverFromTableDefinition(keyspaceSchema, td) ==
    IF td.Type # TableBaseTable
    THEN NotMade("a keyspaceID resolver can only be created for a base table")
    ELSE IF ~keyspaceSchema.hasTable
    THEN NotMade("no vschema definition for table")
    ELSE LET f == FindVindexForSharding(keyspaceSchema.ColumnVindexes) IN
         IF f.err # NoErr THEN NotMade(f.err)
         ELSE LET columnIndex == TableDefinitionGetColumn(td, f.cv.Columns[1])
              IN  IF columnIndex = -1
                  THEN NotMade("table has a Vindex on unknown column")
                  ELSE [r |-> [variant |-> "v3",
                               keyspaceInfo |-> NoKeyspaceInfo,
                               shardingColumnIndex |-> columnIndex,
                               vindex |-> f.cv.Vindex, td |-> td],
                        err |-> NoErr]

\* newV3ResolverFromColumnList(keyspaceSchema, name, columns): the td field
\* is not set and stays nil.
newV3ResolverFromColumnList(keyspaceSchema, columns) ==
    IF ~keyspaceSchema.hasTable
    THEN NotMade("no vschema definition for table")
    ELSE LET f == FindVindexForSharding(keyspaceSchema.ColumnVindexes) IN
         IF f.err # NoErr THEN NotMade(f.err)
         ELSE LET columnIndex == IndexOf(columns, f.cv.Columns[1], 0)
              IN  IF columnIndex = -1
                  THEN NotMade("table has a Vindex on unknown column")
                  ELSE [r |-> [variant |-> "v3",
                               keyspaceInfo |-> NoKeyspaceInfo,
                               shardingColumnIndex |-> columnIndex,
                               vindex |-> f.cv.Vindex, td |-> NilTd],
                        err |-> NoErr]

\* What keyspaceID returns: ([]byte, error).
Bytes(b) == [ok |-> TRUE, bytes |-> b, err |-> NoErr]
Error(msg) == [ok |-> FALSE, bytes |-> <<>>, err |-> msg]
NoRet == [ok |-> FALSE, bytes |-> <<>>, err |-> "no result"]

\* v := row[r.shardingColumnIndex] (lines 96 and 203)
ShardingValue(r, row) == row[r.shardingColumnIndex + 1]

\* The switch of lines 97-108 with the two cases exchanged.
v2SwitchExchanged(r, v) ==
    CASE r.keyspaceInfo.ShardingColumnType = KeyspaceIdType_UINT64 -> Bytes(v)
      [] r.keyspaceInfo.ShardingColumnType = KeyspaceIdType_BYTES ->
            LET i == ToUint64(v) IN
            IF i.err # NoErr THEN Error("Non numerical value")
            ELSE Bytes(Uint64KeyBytes(i.n))
      [] OTHER -> Error("unsupported ShardingColumnType")

\* v2Resolver.keyspaceID after line 96: the switch on ShardingColumnType.
v2Switch(r, v) ==
    CASE r.keyspaceInfo.ShardingColumnType = KeyspaceIdType_BYTES -> Bytes(v)
      [] r.keyspaceInfo.ShardingColumnType = KeyspaceIdType_UINT64 ->
            LET i == ToUint64(v) IN
            IF i.err # NoErr THEN Error("Non numerical value")
            ELSE Bytes(Uint64KeyBytes(i.n))
      [] OTHER -> Error("unsupported ShardingColumnType")

\* The checks of lines 205-215 without len(ksid) == 0.
v3CheckAcceptsEmpty(m) ==
    IF m.err # NoErr THEN Error(m.err)
    ELSE IF Len(m.dests) # 1
    THEN Error("mapping row to keyspace id returned an invalid array of keyspace ids")
    ELSE IF m.dests[1].kind # "DestinationKeyspaceID"
    THEN Error("could not map to a keyspace id")
    ELSE Bytes(m.dests[1].bytes)

\* v3Resolver.keyspaceID after line 204: the checks on what Map returned.
v3Check(m) ==
    IF m.err # NoErr THEN Error(m.err)
    ELSE IF Len(m.dests) # 1
    THEN Error("mapping row to keyspace id returned an invalid array of keyspace ids")
    ELSE IF m.dests[1].kind # "DestinationKeyspaceID" \/ Len(m.dests[1].bytes) = 0
    THEN Error("could not map to a keyspace id")
    ELSE Bytes(m.dests[1].bytes)

\* keyspaceID(row) run by one caller with nothing in between.
keyspaceID(r, row) ==
    IF r.variant = "v2" THEN v2Switch(r, ShardingValue(r, row))
    ELSE v3Check(VindexMap(r.vindex, ShardingValue(r, row)))

\* debugTable(td): the table-level debug filter.
debugTable(td) == td.Name \in debugTables

\* What an accessor does: return a value (with an error or without) or panic.
Return(val, err) == [kind |-> "return", val |-> val, err |-> err]
Panic(msg) == [kind |-> "panic", val |-> <<>>, err |-> msg]
NilDeref == "invalid memory address or nil pointer dereference"

\* shouldDebug(): what the call can do.  debugTable on a nil table
\* definition either dereferences it or answers false.
shouldDebug(r) ==
    IF r.variant = "v2" THEN { Return(FALSE, errV2unsupported) }
    ELSE IF r.td.nil THEN { Panic(NilDeref), Return(FALSE, NoErr) }
    ELSE { Return(debugTable(r.td), NoErr) }

\* primaryColumns()
primaryColumns(r) ==
    IF r.variant = "v2" THEN Panic(errV2unsupported)
    ELSE IF r.td.nil THEN Panic(NilDeref)
    ELSE Return(r.td.PrimaryKeyColumns, NoErr)

\* The loops of v3Resolver.primaryIndexes (lines 131-138) from name k on.
RECURSIVE primaryIndexLoop(_, _)
primaryIndexLoop(primaryIndexNames, k) ==
    IF k > Len(primaryIndexNames) THEN <<>>
    ELSE LET i == IndexOf(primaryIndexNames, primaryIndexNames[k], 0) IN
         (IF i = -1 THEN <<>> ELSE <<i>>)
         \o primaryIndexLoop(primaryIndexNames, k + 1)

\* primaryIndexes()
primaryIndexes(r) ==
    IF r.variant = "v2" THEN Panic(errV2unsupported)
    ELSE IF r.td.nil THEN Panic(NilDeref)
    ELSE Return(primaryIndexLoop(r.td.PrimaryKeyColumns, 1), NoErr)

Idle == [pc |-> "idle", row |-> <<>>, v |-> <<>>,
         m |-> [err |-> NoErr, dests |-> <<>>], ret |-> NoRet]
NoAcc == [op |-> "none", out |-> Return(<<>>, NoErr)]

\* made: which factory was called and what it returned.
NotYetMade == [by |-> "none", r |-> NoResolver, err |-> NoErr]

\* ---- the factories ----
NewV2Resolver(infos, tds) ==
    /\ made.by = "none"
    /\ \E k \in infos, td \in tds :
         LET n == newV2Resolver(k, td) IN
         /\ resolver' = n.r
         /\ made' = [by |-> "newV2Resolver", r |-> n.r, err |-> n.err]
    /\ UNCHANGED <<debugTables, calls, acc>>
    /\ UNCHANGED plannerVars

NewV3ResolverFromTableDefinition(schemas, tds) ==
    /\ made.by = "none"
    /\ \E ks \in schemas, td \in tds :
         LET n == newV3ResolverFromTableDefinition(ks, td) IN
         /\ resolver' = n.r
         /\ made' = [by |-> "newV3ResolverFromTableDefinition", r |-> n.r,
                     err |-> n.err]
    /\ UNCHANGED <<debugTables, calls, acc>>
    /\ UNCHANGED plannerVars

NewV3ResolverFromColumnList(schemas, lists) ==
    /\ made.by = "none"
    /\ \E ks \in schemas, columns \in lists :
         LET n == newV3ResolverFromColumnList(ks, columns) IN
         /\ resolver' = n.r
         /\ made' = [by |-> "newV3ResolverFromColumnList", r |-> n.r,
                     err |-> n.err]
    /\ UNCHANGED <<debugTables, calls, acc>>
    /\ UNCHANGED plannerVars

\* ---- keyspaceID, statement by statement, run by caller w ----

\* The first statement of keyspaceID writing to the shared resolver: it
\* resets r.shardingColumnIndex after reading the value.
ReadShardingValueMovingIndex(w, row) ==
    /\ resolver.variant # "none"
    /\ calls[w].pc = "idle"
    /\ calls' = [calls EXCEPT ![w] =
                   [Idle EXCEPT !.pc = "read", !.row = row,
                                !.v = ShardingValue(resolver, row)]]
    /\ resolver' = [resolver EXCEPT !.shardingColumnIndex = 0]
    /\ acc' = NoAcc
    /\ UNCHANGED <<made, debugTables>>
    /\ UNCHANGED plannerVars

\* The call and line 96 / 203: v := row[r.shardingColumnIndex]
ReadShardingValue(w, row) ==
    /\ resolver.variant # "none"
    /\ calls[w].pc = "idle"
    /\ calls' = [calls EXCEPT ![w] =
                   [Idle EXCEPT !.pc = "read", !.row = row,
                                !.v = ShardingValue(resolver, row)]]
    /\ acc' = NoAcc
    /\ UNCHANGED <<resolver, made, debugTables>>
    /\ UNCHANGED plannerVars

\* v2Resolver.keyspaceID lines 97-108
V2Switch(w) ==
    /\ resolver.variant = "v2"
    /\ calls[w].pc = "read"
    /\ calls' = [calls EXCEPT ![w].pc = "done",
                              ![w].ret = v2Switch(resolver, calls[w].v)]
    /\ UNCHANGED <<resolver, made, debugTables, acc>>
    /\ UNCHANGED plannerVars

\* v3Resolver.keyspaceID line 204
V3Map(w) ==
    /\ resolver.variant = "v3"
    /\ calls[w].pc = "read"
    /\ calls' = [calls EXCEPT ![w].pc = "mapped",
                              ![w].m = VindexMap(resolver.vindex, calls[w].v)]
    /\ UNCHANGED <<resolver, made, debugTables, acc>>
    /\ UNCHANGED plannerVars

\* v3Resolver.keyspaceID lines 205-215
V3Check(w) ==
    /\ calls[w].pc = "mapped"
    /\ calls' = [calls EXCEPT ![w].pc = "done", ![w].ret = v3Check(calls[w].m)]
    /\ UNCHANGED <<resolver, made, debugTables, acc>>
    /\ UNCHANGED plannerVars

\* The caller takes the result and is ready for the next row.
TakeResult(w) ==
    /\ calls[w].pc = "done"
    /\ calls' = [calls EXCEPT ![w] = Idle]
    /\ UNCHANGED <<resolver, made, debugTables, acc>>
    /\ UNCHANGED plannerVars

\* ---- the accessors, called between keyspaceID calls ----
AllIdle == \A w \in Callers : calls[w].pc = "idle"

ShouldDebug ==
    /\ resolver.variant # "none"
    /\ AllIdle
    /\ \E out \in shouldDebug(resolver) :
         acc' = [op |-> "shouldDebug", out |-> out]
    /\ UNCHANGED <<resolver, made, debugTables, calls>>
    /\ UNCHANGED plannerVars

PrimaryColumns ==
    /\ resolver.variant # "none"
    /\ AllIdle
    /\ acc' = [op |-> "primaryColumns", out |-> primaryColumns(resolver)]
    /\ UNCHANGED <<resolver, made, debugTables, calls>>
    /\ UNCHANGED plannerVars

PrimaryIndexes ==
    /\ resolver.variant # "none"
    /\ AllIdle
    /\ acc' = [op |-> "primaryIndexes", out |-> primaryIndexes(resolver)]
    /\ UNCHANGED <<resolver, made, debugTables, calls>>
    /\ UNCHANGED plannerVars

\* The planner's variables while the resolvers run.
PlannerIdle ==
    /\ upd = [Exprs |-> <<[Name |-> "a",
                           Expr |-> [kind |-> "IntVal", val |-> "1"]]>>,
              Where |-> RoutedWhere, OrderBy |-> <<>>,
              Limit |-> [present |-> FALSE, text |-> <<>>]]
    /\ table = Table(<<ColumnVindex("hash", <<"id">>)>>)
    /\ env = EnvRouted
    /\ result = [plan |-> NoPlan, err |-> "not called"]

\* The resolvers' variables while the planner runs.
ResolverIdle ==
    /\ resolver = NoResolver
    /\ made = NotYetMade
    /\ debugTables = {}
    /\ calls = [w \in Callers |-> Idle]
    /\ acc = NoAcc

\* One caller at a time: factories, keyspaceID on every row, accessors.
InitResolver ==
    /\ PlannerIdle
    /\ resolver = NoResolver
    /\ made = NotYetMade
    /\ debugTables \in SUBSET {"t"}
    /\ calls = [w \in Callers |-> Idle]
    /\ acc = NoAcc

NextResolver ==
    \/ NewV2Resolver(KeyspaceInfos, TableDefinitions)
    \/ NewV3ResolverFromTableDefinition(KeyspaceSchemas, TableDefinitions)
    \/ NewV3ResolverFromColumnList(KeyspaceSchemas, ColumnLists)
    \/ \E row \in Rows : ReadShardingValue(1, row)
    \/ V2Switch(1)
    \/ V3Map(1)
    \/ V3Check(1)
    \/ TakeResult(1)
    \/ ShouldDebug
    \/ PrimaryColumns
    \/ PrimaryIndexes

SpecResolver == InitResolver /\ [][NextResolver]_vars

\* Callers sharing one resolver, their keyspaceID calls interleaved
\* statement by statement.  The rows carry "300", "x" or the empty value in
\* either position; the tables have no primary key columns.
WorkerRows ==
    { <<v, Filler>> : v \in { <<51, 48, 48>>, <<120>>, <<>> } }
    \cup { <<Filler, v>> : v \in { <<51, 48, 48>>, <<120>>, <<>> } }
WorkerTableDefinitions ==
    { td \in TableDefinitions : td.PrimaryKeyColumns = <<>> }

InitWorkers ==
    /\ PlannerIdle
    /\ resolver = NoResolver
    /\ made = NotYetMade
    /\ debugTables = {}
    /\ calls = [w \in Callers |-> Idle]
    /\ acc = NoAcc

NextWorkers ==
    \/ NewV2Resolver(KeyspaceInfos, WorkerTableDefinitions)
    \/ NewV3ResolverFromTableDefinition(KeyspaceSchemas, WorkerTableDefinitions)
    \/ NewV3ResolverFromColumnList(KeyspaceSchemas, ColumnLists)
    \/ \E w \in Callers :
         \/ \E row \in WorkerRows : ReadShardingValue(w, row)
         \/ V2Switch(w)
         \/ V3Map(w)
         \/ V3Check(w)
         \/ TakeResult(w)

SpecWorkers == InitWorkers /\ [][NextWorkers]_vars

NotCalled == [plan |-> NoPlan, err |-> "not called"]

\* getDMLRouting finds no route without a WHERE clause.
Consistent(u, e) == e.routing => u.Where.present

\* The inputs: sharded routed statements over every table; single
\* assignments of every expression kind over every table; unsharded
\* statements; every answer of the collaborators.
InitPlanner ==
    /\ \/ /\ upd \in UpdatesCore
          /\ table \in Tables
          /\ env = EnvRouted
       \/ /\ upd \in UpdatesKinds
          /\ upd.Where \in RoutedWheres
          /\ table \in Tables
          /\ env = EnvRouted
       \/ /\ upd \in UpdatesCoreAnyWhere
          /\ table \in FixtureTables
          /\ env \in EnvsUnsharded
       \/ /\ upd \in UpdatesKinds
          /\ table \in FixtureTables
          /\ env \in Envs
    /\ Consistent(upd, env)
    /\ result = NotCalled
    /\ ResolverIdle

BuildUpdatePlan ==
    /\ result = NotCalled
    /\ result' = buildUpdatePlan(upd, table, env)
    /\ UNCHANGED <<upd, table, env>>
    /\ UNCHANGED resolverVars

NextPlanner == BuildUpdatePlan

SpecPlanner == InitPlanner /\ [][NextPlanner]_vars

(***************************************************************************)
(* Properties of buildUpdatePlan (SpecPlanner).                            *)
(***************************************************************************)

Called == result # NotCalled
PlanReturned == Called /\ result.err = NoErr

\* The statement got as far as buildChangedVindexesValues (line 79).
ReachedVindexAnalysis ==
    /\ Called
    /\ env.tableExprs = "route" /\ ~env.targetDestination /\ env.sharded
    /\ ~upd.Where.hasSubquery /\ env.numTables = 1 /\ ~env.vindexTableNil
    /\ env.routing

\* The assignments of the SET list to column col.
Hits(col) == { k \in 1..Len(upd.Exprs) : upd.Exprs[k].Name = col }
\* The expression assigned to col, when exactly one assignment names it.
Assignment(col) == upd.Exprs[CHOOSE k \in Hits(col) : TRUE].Expr
ColumnsOf(cv) == { cv.Columns[c] : c \in 1..Len(cv.Columns) }
Assigned(cv) == \E col \in ColumnsOf(cv) : Hits(col) # {}
LimitWithoutOrderBy == upd.Limit.present /\ Len(upd.OrderBy) = 0
LiteralOrPlaceholder(expr) ==
    expr.kind \in {"StrVal", "HexVal", "IntVal", "ValArg"}

\* C1: a plan returned for a sharded keyspace has a ChangedVindexValues
\* entry for exactly the column-vindexes with an assigned column; each of
\* them is not the primary vindex, is an owned lookup vindex, has every
\* column assigned exactly once, and its entry holds the PlanValues of its
\* columns in the vindex's column order; a non-empty map excludes LIMIT
\* without ORDER BY.
C1_ChangedVindexValuesPerVindex ==
    (PlanReturned /\ result.plan.Opcode = "UpdateEqual") =>
        LET cvs == table.ColumnVindexes
            m == result.plan.ChangedVindexValues
        IN  /\ DOMAIN m = { cvs[i].Name :
                              i \in { j \in 1..Len(cvs) : Assigned(cvs[j]) } }
            /\ \A i \in 1..Len(cvs) :
                 Assigned(cvs[i]) =>
                   /\ i # 1
                   /\ IsLookup(cvs[i].Name)
                   /\ IsOwned(cvs[i].Name)
                   /\ \A col \in ColumnsOf(cvs[i]) : Cardinality(Hits(col)) = 1
                   /\ m[cvs[i].Name] =
                        [c \in 1..Len(cvs[i].Columns) |->
                           NewPlanValue(Assignment(cvs[i].Columns[c]))]
            /\ (DOMAIN m # {} => ~LimitWithoutOrderBy)

\* The same statement for the tables whose column-vindexes carry distinct
\* names: it holds there.
DistinctVindexNames ==
    \A i, j \in 1..Len(table.ColumnVindexes) :
        table.ColumnVindexes[i].Name = table.ColumnVindexes[j].Name => i = j
ChangedVindexValuesUnderDistinctNames ==
    DistinctVindexNames => C1_ChangedVindexValuesPerVindex

\* The primary vindex has every column assigned exactly once and the
\* statement has no LIMIT without ORDER BY.
PrimaryAssigned ==
    /\ ReachedVindexAnalysis
    /\ \A col \in ColumnsOf(table.ColumnVindexes[1]) : Cardinality(Hits(col)) = 1
    /\ ~LimitWithoutOrderBy

PrimaryVindexError == "You can't update primary vindex columns"
OnlyValuesError == "Only values are supported"

\* C2 as stated: assigning the primary vindex's columns fails with the
\* primary-vindex error whatever kind of expression is assigned.
C2_PrimaryVindexErrorForEveryExpr ==
    PrimaryAssigned => result.err = PrimaryVindexError

\* C2 as amended: assigning the primary vindex's columns returns no plan; the
\* error is the primary-vindex error when every expression assigned to a
\* primary-vindex column is a literal or a bind variable, and the "Only
\* values are supported" error when one of them is not.
C2_PrimaryVindexErrorForValues ==
    PrimaryAssigned =>
        /\ result.plan = NoPlan
        /\ result.err =
             IF \A col \in ColumnsOf(table.ColumnVindexes[1]) :
                    LiteralOrPlaceholder(Assignment(col))
             THEN PrimaryVindexError
             ELSE OnlyValuesError

C2_Witness ==
    /\ PrimaryAssigned
    /\ Len(table.ColumnVindexes[1].Columns) = 2
    /\ Len(table.ColumnVindexes) = 3
    /\ \E col \in ColumnsOf(table.ColumnVindexes[1]) :
         Assignment(col).kind = "ValArg"
    /\ result.err = PrimaryVindexError

\* The columns of the owned vindexes among cvs[n..], in declaration order.
RECURSIVE OwnedColumnsFrom(_, _)
OwnedColumnsFrom(cvs, n) ==
    IF n > Len(cvs) THEN <<>>
    ELSE (IF IsOwned(cvs[n].Name) THEN cvs[n].Columns ELSE <<>>)
         \o OwnedColumnsFrom(cvs, n + 1)

\* The names joined by ", ".
CommaSeparated(names) ==
    IF Len(names) = 0 THEN <<>>
    ELSE [i \in 1..(2 * Len(names) - 1) |->
            IF i % 2 = 1 THEN names[(i + 1) \div 2] ELSE ", "]

\* C3: a returned plan carries a fetch subquery exactly when its
\* ChangedVindexValues is not empty, and the subquery is "select", the
\* columns of every owned vindex of the table in declaration order separated
\* by ", ", "from" the table, the statement's WHERE, ORDER BY and LIMIT, and
\* "for update".
C3_OwnedVindexQuery ==
    PlanReturned =>
        LET q == result.plan.OwnedVindexQuery IN
        /\ (q # <<>>) <=> (DOMAIN result.plan.ChangedVindexValues # {})
        /\ q # <<>> =>
             q = <<"select ">>
                 \o CommaSeparated(OwnedColumnsFrom(table.ColumnVindexes, 1))
                 \o <<" from ", table.Name>>
                 \o upd.Where.text
                 \o (IF Len(upd.OrderBy) = 0 THEN <<>>
                     ELSE <<" order by ">> \o upd.OrderBy)
                 \o upd.Limit.text
                 \o <<" for update">>

\* A plan with a subquery over two owned vindexes of which one is not
\* changing, with ORDER BY and LIMIT.
C3_Witness ==
    /\ PlanReturned
    /\ result.plan.OwnedVindexQuery # <<>>
    /\ Cardinality(DOMAIN result.plan.ChangedVindexValues) = 1
    /\ Len(table.ColumnVindexes) = 3
    /\ IsOwned(table.ColumnVindexes[2].Name)
    /\ IsOwned(table.ColumnVindexes[3].Name)
    /\ ~Assigned(table.ColumnVindexes[2])
    /\ Assigned(table.ColumnVindexes[3])
    /\ upd.Limit.present /\ Len(upd.OrderBy) > 0

\* The columns some column-vindex of the table covers, and the assignments
\* to them.
VindexColumns ==
    UNION { ColumnsOf(table.ColumnVindexes[i]) :
              i \in 1..Len(table.ColumnVindexes) }
VindexAssignments ==
    { k \in 1..Len(upd.Exprs) : upd.Exprs[k].Name \in VindexColumns }
OwnedLookupOn(col) ==
    { i \in 1..Len(table.ColumnVindexes) :
        /\ col \in ColumnsOf(table.ColumnVindexes[i])
        /\ IsLookup(table.ColumnVindexes[i].Name)
        /\ IsOwned(table.ColumnVindexes[i].Name) }

\* The statement's only assignment to a vindex column assigns a column of an
\* owned lookup vindex.
OneOwnedLookupAssignment ==
    /\ ReachedVindexAnalysis
    /\ Cardinality(VindexAssignments) = 1
    /\ OwnedLookupOn(upd.Exprs[CHOOSE k \in VindexAssignments : TRUE].Name) # {}

\* C4: when the only assignment to a vindex column sets a column of an owned
\* lookup vindex, an expression that is neither a literal nor a bind variable
\* makes buildUpdatePlan return no plan and the "Only values are supported"
\* error; a literal or a bind variable is extracted as its PlanValue: the
\* error is not that one, and a returned plan holds the PlanValue under every
\* vindex that covers the column.
C4_OnlyValuesAreSupported ==
    OneOwnedLookupAssignment =>
        LET a == upd.Exprs[CHOOSE k \in VindexAssignments : TRUE] IN
        IF ~LiteralOrPlaceholder(a.Expr)
        THEN result.plan = NoPlan /\ result.err = OnlyValuesError
        ELSE /\ result.err # OnlyValuesError
             /\ PlanReturned =>
                  \A i \in OwnedLookupOn(a.Name) :
                     /\ table.ColumnVindexes[i].Name
                          \in DOMAIN result.plan.ChangedVindexValues
                     /\ result.plan.ChangedVindexValues[
                            table.ColumnVindexes[i].Name]
                        = << IF a.Expr.kind = "ValArg"
                             THEN [kind |-> "placeholder", key |-> a.Expr.val]
                             ELSE NewPlanValue(a.Expr) >>

\* col + 1 assigned to the column of an owned lookup vindex, beside an
\* assignment to a column no vindex covers.
C4_Witness ==
    /\ OneOwnedLookupAssignment
    /\ Len(upd.Exprs) = 2
    /\ upd.Exprs[CHOOSE k \in VindexAssignments : TRUE].Expr.kind = "BinaryExpr"
    /\ result.err = OnlyValuesError

\* The statement is a single-table route without destination override in an
\* unsharded keyspace, its subqueries planning against the same keyspace.
UnshardedStatement ==
    /\ Called
    /\ env.tableExprs = "route" /\ ~env.targetDestination /\ ~env.sharded
    /\ (upd.Where.hasSubquery => env.subquerySamePlan)

\* C5: an unsharded statement gets a plan with the unsharded opcode, the
\* rendering of the statement as query text, no ChangedVindexValues and no
\* fetch subquery, whatever the SET list assigns.
C5_UnshardedPlan ==
    UnshardedStatement =>
        /\ result.err = NoErr
        /\ result.plan.Opcode = "UpdateUnsharded"
        /\ result.plan.Query = generateQuery(upd, table)
        /\ DOMAIN result.plan.ChangedVindexValues = {}
        /\ result.plan.OwnedVindexQuery = <<>>

\* An unsharded plan for a statement that assigns the primary vindex's column
\* twice, once with col + 1, with LIMIT and no ORDER BY.
C5_Witness ==
    /\ UnshardedStatement
    /\ PlanReturned
    /\ Len(upd.Exprs) = 2
    /\ \A k \in 1..2 : upd.Exprs[k].Name = table.ColumnVindexes[1].Columns[1]
    /\ upd.Exprs[2].Expr.kind = "BinaryExpr"
    /\ LimitWithoutOrderBy
    /\ Len(table.ColumnVindexes) = 3

(***************************************************************************)
(* Properties of the resolvers (SpecResolver, SpecWorkers).                *)
(***************************************************************************)

\* Caller w has a finished keyspaceID call on a resolver of the variant.
Finished(w, variant) == resolver.variant = variant /\ calls[w].pc = "done"
\* The value of the row at the sharding column's position.
ValueAtShardingColumn(w) == calls[w].row[resolver.shardingColumnIndex + 1]

\* C6: keyspaceID of the vindex-based resolver returns bytes exactly when
\* mapping the value at the sharding column succeeds with one destination
\* that is a resolved keyspace id with non-empty bytes, and then returns
\* those bytes; otherwise it returns an error and no bytes.
C6_V3KeyspaceIDSingleNonEmpty ==
    Finished(1, "v3") =>
        LET m == VindexMap(resolver.vindex, ValueAtShardingColumn(1))
            accepted ==
                /\ m.err = NoErr
                /\ Len(m.dests) = 1
                /\ m.dests[1].kind = "DestinationKeyspaceID"
                /\ Len(m.dests[1].bytes) > 0
            ret == calls[1].ret
        IN  /\ ret.ok <=> accepted
            /\ accepted => ret.bytes = m.dests[1].bytes /\ ret.err = NoErr
            /\ ~accepted => ret.bytes = <<>> /\ ret.err # NoErr

\* The resolver returns the two bytes of a resolved keyspace id read from
\* the second column.
C6_Witness ==
    /\ Finished(1, "v3")
    /\ resolver.shardingColumnIndex = 1
    /\ calls[1].ret.ok
    /\ Len(calls[1].ret.bytes) = 2

\* digits * 256 + carry on digit sequences, lowest digit first into acc.
RECURSIVE Times256Plus(_, _, _)
Times256Plus(digits, carry, sofar) ==
    IF Len(digits) = 0
    THEN IF carry = 0 THEN sofar
         ELSE Times256Plus(<<>>, carry \div 10, <<carry % 10>> \o sofar)
    ELSE LET t == digits[Len(digits)] * 256 + carry IN
         Times256Plus(SubSeq(digits, 1, Len(digits) - 1), t \div 10,
                      <<t % 10>> \o sofar)

\* The number whose big-endian encoding is bytes[i..], after sofar.
RECURSIVE FromBigEndian(_, _, _)
FromBigEndian(bytes, i, sofar) ==
    IF i > Len(bytes) THEN sofar
    ELSE FromBigEndian(bytes, i + 1,
                       StripZeros(Times256Plus(sofar, bytes[i], <<>>)))

ThreeHundred == <<51, 48, 48>>

\* C7: keyspaceID of the fixed-column resolver, on the value at the sharding
\* column: for type bytes returns the value unchanged; for type uint64
\* returns, for a value that parses as an unsigned 64-bit integer n, the 8
\* bytes of n in big-endian order ("300" gives 00 00 00 00 00 00 01 2C) and
\* fails for an empty value or one with a byte that is not a digit; for any
\* other type fails.
C7_V2KeyspaceIDByType ==
    Finished(1, "v2") =>
        LET v == ValueAtShardingColumn(1)
            typ == resolver.keyspaceInfo.ShardingColumnType
            ret == calls[1].ret
        IN  /\ typ = KeyspaceIdType_BYTES => ret = Bytes(v)
            /\ typ = KeyspaceIdType_UINT64 =>
                 /\ ToUint64(v).err = NoErr =>
                      /\ ret.ok /\ ret.err = NoErr
                      /\ Len(ret.bytes) = 8
                      /\ \A i \in 1..8 : ret.bytes[i] \in 0..255
                      /\ FromBigEndian(ret.bytes, 1, <<>>) = ToUint64(v).n
                 /\ v = ThreeHundred => ret.bytes = <<0, 0, 0, 0, 0, 0, 1, 44>>
                 /\ (Len(v) = 0 \/ \E i \in 1..Len(v) : ~IsDigit(v[i])) =>
                      ~ret.ok /\ ret.bytes = <<>> /\ ret.err # NoErr
            /\ typ \notin {KeyspaceIdType_BYTES, KeyspaceIdType_UINT64} =>
                 ~ret.ok /\ ret.bytes = <<>> /\ ret.err # NoErr

\* "300" in the second column of a uint64 keyspace.
C7_Witness ==
    /\ Finished(1, "v2")
    /\ resolver.keyspaceInfo.ShardingColumnType = KeyspaceIdType_UINT64
    /\ resolver.shardingColumnIndex = 1
    /\ calls[1].row = <<Filler, ThreeHundred>>
    /\ calls[1].ret = Bytes(<<0, 0, 0, 0, 0, 0, 1, 44>>)

\* The largest unsigned 64-bit integer is encoded as eight bytes 0xFF, and
\* 0xAB passes through a bytes keyspace unchanged.
V2KeyspaceIDExtremes ==
    Finished(1, "v2") =>
        /\ (/\ resolver.keyspaceInfo.ShardingColumnType = KeyspaceIdType_UINT64
            /\ ValueAtShardingColumn(1) = Ascii(MaxUint64))
           => calls[1].ret = Bytes(<<255, 255, 255, 255, 255, 255, 255, 255>>)
        /\ (/\ resolver.keyspaceInfo.ShardingColumnType = KeyspaceIdType_BYTES
            /\ ValueAtShardingColumn(1) = <<171>>)
           => calls[1].ret = Bytes(<<171>>)

\* C8: on a vindex-based resolver made by either factory, shouldDebug
\* returns what the debug filter says for the table definition, without
\* error, and primaryColumns returns the table's primary-key column names.
C8_V3AccessorsForEitherFactory ==
    resolver.variant = "v3" =>
        /\ acc.op = "primaryColumns" =>
             /\ acc.out.kind = "return"
             /\ acc.out.err = NoErr
             /\ ~resolver.td.nil => acc.out.val = resolver.td.PrimaryKeyColumns
        /\ (acc.op = "shouldDebug" /\ acc.out.kind = "return") =>
             /\ acc.out.err = NoErr
             /\ ~resolver.td.nil => acc.out.val = (resolver.td.Name \in debugTables)

\* The same statement for the resolvers made from a table definition: it
\* holds there.
V3AccessorsFromTableDefinition ==
    made.by = "newV3ResolverFromTableDefinition" =>
        /\ C8_V3AccessorsForEitherFactory
        /\ acc.op = "shouldDebug" => acc.out.kind = "return"

\* C9: primaryIndexes on a vindex-based resolver returns as many indexes as
\* the table has primary-key column names, the k-th being the position of
\* the first occurrence of the k-th name in that same list.
C9_PrimaryIndexesSelfReferential ==
    (resolver.variant = "v3" /\ acc.op = "primaryIndexes") =>
        /\ acc.out.kind = "return"
        /\ acc.out.err = NoErr
        /\ ~resolver.td.nil =>
             LET names == resolver.td.PrimaryKeyColumns IN
             /\ Len(acc.out.val) = Len(names)
             /\ \A k \in 1..Len(names) :
                  /\ names[acc.out.val[k] + 1] = names[k]
                  /\ \A j \in 1..acc.out.val[k] : names[j] # names[k]
             /\ (\A j, k \in 1..Len(names) : names[j] = names[k] => j = k)
                  => acc.out.val = [k \in 1..Len(names) |-> k - 1]

\* The same statement for the resolvers made from a table definition: it
\* holds there.
PrimaryIndexesFromTableDefinition ==
    made.by = "newV3ResolverFromTableDefinition" =>
        C9_PrimaryIndexesSelfReferential

\* C10: while callers run keyspaceID on one shared resolver in any
\* interleaving, the resolver's fields stay what the factory returned, and
\* every finished call has the outcome of the same call made alone on its
\* row.
C10_ResolverStateless ==
    /\ resolver = made.r
    /\ \A w \in Callers :
         calls[w].pc = "done" => calls[w].ret = keyspaceID(made.r, calls[w].row)

\* Two callers finished at once on different rows, one with bytes and one
\* with an error, on a resolver reading the second column.
C10_Witness ==
    /\ resolver.variant = "v3"
    /\ resolver.shardingColumnIndex = 1
    /\ calls[1].pc = "done" /\ calls[2].pc = "done"
    /\ calls[1].row # calls[2].row
    /\ calls[1].ret.ok /\ ~calls[2].ret.ok

V2Accessors == {"shouldDebug", "primaryColumns", "primaryIndexes"}

\* C11: on a fixed-column resolver, shouldDebug, primaryColumns and
\* primaryIndexes each signal the same "unsupported for this variant" failure
\* as an error returned to the caller, never by aborting and never with a
\* normal result.
C11_V2AccessorsReturnUnsupported ==
    (resolver.variant = "v2" /\ acc.op \in V2Accessors) =>
        /\ acc.out.kind = "return"
        /\ acc.out.err = errV2unsupported

\* What the three accessors do have in common on a fixed-column resolver:
\* each fails with the message of errV2unsupported, shouldDebug by returning
\* it beside false and the other two by panicking with it, and none gives a
\* result without it.
V2AccessorsFailDistinctly ==
    (resolver.variant = "v2" /\ acc.op \in V2Accessors) =>
        /\ acc.out.err = errV2unsupported
        /\ acc.out.kind = IF acc.op = "shouldDebug" THEN "return" ELSE "panic"
        /\ acc.op = "shouldDebug" => acc.out.val = FALSE

====
